---- MODULE Spec2Model ----
(***************************************************************************)
(* Model of the solar_energy_flow control core:                            *)
(*   pid.py              - class PID (step, reset, update_config,          *)
(*                         apply_options, bumpless_transfer)               *)
(*   consumer_manager.py - class ConsumerManager (priority grouping and    *)
(*                         its cache)                                      *)
(* Python floats are modelled as exact rationals <<numerator, denominator>>*)
(* in lowest terms with a positive denominator; None is the empty tuple.   *)
(***************************************************************************)
EXTENDS Integers, Sequences, FiniteSets, TLC

None == <<>>

(* ------------------------- rational arithmetic ------------------------- *)

RECURSIVE GCD(_, _)
GCD(a, b) == IF b = 0 THEN a ELSE GCD(b, a % b)

IAbs(x) == IF x < 0 THEN -x ELSE x

Norm(n, d) ==
  LET g == GCD(IAbs(n), IAbs(d))
      s == IF d < 0 THEN -1 ELSE 1
  IN  <<(s * n) \div g, (s * d) \div g>>

R(n) == <<n, 1>>
Zero == <<0, 1>>

RAdd(a, b) == Norm(a[1] * b[2] + b[1] * a[2], a[2] * b[2])
RNeg(a) == <<-a[1], a[2]>>
RSub(a, b) == RAdd(a, RNeg(b))
RMul(a, b) == Norm(a[1] * b[1], a[2] * b[2])
RDiv(a, b) == Norm(a[1] * b[2], a[2] * b[1])
RLt(a, b) == a[1] * b[2] < b[1] * a[2]
RLe(a, b) == a[1] * b[2] <= b[1] * a[2]
RAbs(a) == <<IAbs(a[1]), a[2]>>
\* Python max(a, b) / min(a, b): the first argument wins a tie
RMax(a, b) == IF RLt(a, b) THEN b ELSE a
RMin(a, b) == IF RLt(b, a) THEN b ELSE a

(* ------------------------------ bounds --------------------------------- *)

\* the monotonic clock is followed up to this many seconds
MaxClock == 4

(* --------------------------- program constants ------------------------- *)

\* pid.py:72  max(kp, 0.001)
KpFloor == <<1, 1000>>
\* pid.py:88  max(1e-6, now - prev_t)
DtFloor == <<1, 1000000>>
\* pid.py:91  dt < 1e-4
DerivMinDt == <<1, 10000>>
\* pid.py:121  saturation_count > 10
SaturationLimit == 10
\* pid.py:147  oscillation_count >= 3
OscillationLimit == 3
\* pid.py:140  output_range * 2.0
IntegralRangeFactor == 2

(* ------------------------------ inputs --------------------------------- *)

\* PIDConfig (pid.py:11-17)
Cfg(kp, ki, kd, min_output, max_output) ==
  [kp |-> R(kp), ki |-> R(ki), kd |-> R(kd),
   min_output |-> R(min_output), max_output |-> R(max_output)]

\* the tunings the controller is constructed with or retuned to
PIDConfig ==
  { Cfg(1, 0, 0, 0, 2),     \* proportional only
    Cfg(1, 1, 0, 0, 2),     \* PI
    Cfg(2, 1, 1, 0, 2),     \* PID, kaw = 1/2
    Cfg(0, 1, 0, -1, 1),    \* kp = 0: kaw takes its floor
    Cfg(1, 1, 0, 1, 1) }    \* min_output = max_output

\* <<pv, error>> of a step or bumpless_transfer call
Samples == {<<R(0), R(3)>>, <<R(1), R(1)>>, <<R(0), R(-3)>>}
\* a last_output the caller supplies that is not the previous output
ForeignLastOutput == R(4)
RateLimits == {R(1)}
CurrentOutputs == {R(1), R(5)}
\* seconds the monotonic clock advances from one call to the next
Elapsed == {1, 2}

(* ------------------------------- state --------------------------------- *)

VARIABLES
  cfg,                \* PID.cfg
  integral,           \* PID._integral
  prev_pv,            \* PID._prev_pv
  prev_t,             \* PID._prev_t
  prev_error,         \* PID._prev_error
  prev_integral,      \* PID._prev_integral
  oscillation_count,  \* PID._oscillation_count
  saturation_count,   \* PID._saturation_count
  kaw,                \* PID._kaw
  now,                \* time.monotonic()
  call                \* the last call made on the controller and what it returned

pidVars == <<cfg, integral, prev_pv, prev_t, prev_error, prev_integral,
             oscillation_count, saturation_count, kaw, now, call>>

VARIABLES
  consumers,                    \* the consumer list the caller currently holds
  runtime_enabled,              \* runtime store: consumer id -> its "enabled" field
  _cached_enabled_priorities,   \* ConsumerManager._cached_enabled_priorities
  _cached_consumers_hash,       \* ConsumerManager._cached_consumers_hash
  _cached_consumer_lookups,     \* ConsumerManager._cached_consumer_lookups
  cm_call                       \* the last call on the manager and what it returned

VARIABLES
  states,           \* hass.states: entity id -> the entity's state string
  registry,         \* entity registry: the consumer override entity registered
  runtime_cmd_w,    \* runtime store: consumer id -> its "cmd_w" field
  runtime_is_on     \* runtime store: consumer id -> its "is_on" field

hassVars == <<states, registry, runtime_cmd_w, runtime_is_on>>

cmVars == <<consumers, runtime_enabled, _cached_enabled_priorities,
            _cached_consumers_hash, _cached_consumer_lookups, cm_call, hassVars>>

vars == <<pidVars, cmVars>>

\* PID._compute_kaw
_compute_kaw(kp) == RDiv(R(1), RMax(kp, KpFloor))

\* what a call record keeps of the call made just before it
NoBefore ==
  [name |-> "none", pv |-> None, error |-> None, current_output |-> None,
   i_term |-> None, output_saturated |-> FALSE, rate_limited |-> FALSE]

Before(c) ==
  [name |-> c.name, pv |-> c.pv, error |-> c.error,
   current_output |-> c.current_output, i_term |-> c.i_term,
   output_saturated |-> c.output_saturated, rate_limited |-> c.rate_limited]

\* the record of one call: its arguments, what it returned and what the
\* integral was around it
NoCall ==
  [name |-> "none", pv |-> None, error |-> None, last_output |-> None,
   rate_limiter_enabled |-> FALSE, rate_limit |-> None, current_output |-> None,
   dt |-> None, output |-> None, p_term |-> None, i_term |-> None,
   d_term |-> None, output_pre_rate_limit |-> None, u_pid |-> None,
   output_saturated |-> FALSE, rate_limited |-> FALSE,
   integral_before |-> None, integral_after |-> None,
   healed |-> FALSE, flips |-> 0,
   before |-> NoBefore]

\* PID.__init__
InitPID ==
  /\ cfg \in PIDConfig
  /\ integral = Zero
  /\ prev_pv = None
  /\ prev_t = None
  /\ prev_error = None
  /\ prev_integral = None
  /\ oscillation_count = 0
  /\ saturation_count = 0
  /\ kaw = _compute_kaw(cfg.kp)
  /\ now = 0
  /\ call = NoCall

(* ------------------------------ PID.step ------------------------------- *)

\* pid.py:84-88  elapsed time since the previous call, 0 on the first one
StepDt(tnow) ==
  IF prev_t = None THEN Zero ELSE RMax(DtFloor, RSub(R(tnow), prev_t))

\* pid.py:90-94  derivative on measurement
StepDpv(pv, dt) ==
  IF prev_pv = None \/ RLt(dt, DerivMinDt) THEN Zero
  ELSE RDiv(RSub(pv, prev_pv), dt)

\* the lower limit left out of the clamp
StepUsat_NoLowerLimit(u_pid) == RMin(cfg.max_output, u_pid)

\* pid.py:101
StepUsat(u_pid) == RMax(cfg.min_output, RMin(cfg.max_output, u_pid))

\* the limiter holding the output back on the way up only
StepUout_UpwardOnly(u_sat, last_output, rate_limiter_enabled, rate_limit, dt) ==
  IF rate_limiter_enabled /\ RLt(Zero, rate_limit) /\ last_output # None /\ RLt(Zero, dt)
  THEN RMin(RAdd(last_output, RMul(rate_limit, dt)), u_sat)
  ELSE u_sat

\* pid.py:103-107
StepUout(u_sat, last_output, rate_limiter_enabled, rate_limit, dt) ==
  IF rate_limiter_enabled /\ RLt(Zero, rate_limit) /\ last_output # None /\ RLt(Zero, dt)
  THEN LET max_delta == RMul(rate_limit, dt)
       IN  RMax(RSub(last_output, max_delta), RMin(RAdd(last_output, max_delta), u_sat))
  ELSE u_sat

\* pid.py:111
OutputSaturated(u_pid) ==
  RLt(u_pid, cfg.min_output) \/ RLt(cfg.max_output, u_pid)

\* pid.py:112
RateLimited(u_out, u_sat, last_output, rate_limiter_enabled, rate_limit) ==
  rate_limiter_enabled /\ RLt(Zero, rate_limit) /\ last_output # None /\ u_out # u_sat

\* the error accumulated while the output is saturated or rate-limited too
IntegralUpdate_AlwaysAccumulating(error, dt, u_out, u_pid, output_saturated, rate_limited) ==
  RAdd(RMul(RMul(cfg.ki, error), dt), RMul(RMul(kaw, RSub(u_out, u_pid)), dt))

\* pid.py:127-134
IntegralUpdate(error, dt, u_out, u_pid, output_saturated, rate_limited) ==
  IF ~output_saturated /\ ~rate_limited
  THEN RAdd(RMul(RMul(cfg.ki, error), dt), RMul(RMul(kaw, RSub(u_out, u_pid)), dt))
  ELSE RMul(RMul(kaw, RSub(u_out, u_pid)), dt)

\* the integral cut back from above only
ClampIntegral_UpperOnly(new_integral, max_integral) == RMin(max_integral, new_integral)

\* pid.py:154,161,167  max(-max_integral, min(max_integral, new_integral))
ClampIntegral(new_integral, max_integral) ==
  RMax(RNeg(max_integral), RMin(max_integral, new_integral))

\* two numbers of opposite strict sign
OppositeSigns(a, b) == RLt(RMul(a, b), Zero)

\* a change of sign seen only on the way down
SignFlip_DownwardOnly(prev_integral0, new_integral) ==
  prev_integral0 # None /\ RLt(Zero, prev_integral0) /\ RLt(new_integral, Zero)

\* pid.py:144-145  the new integral has the opposite strict sign to the
\* recorded one; nothing is recorded before the first update
SignFlip(prev_integral0, new_integral) ==
  /\ prev_integral0 # None
  /\ \/ (RLt(Zero, prev_integral0) /\ RLt(new_integral, Zero))
     \/ (RLt(prev_integral0, Zero) /\ RLt(Zero, new_integral))

\* pid.py:136-172  the integral, previous integral and oscillation count
\* after applying integral_update to the (possibly just zeroed) integral
ApplyIntegralUpdate(integral0, prev_integral0, oscillation0, integral_update) ==
  LET output_range == RAbs(RSub(cfg.max_output, cfg.min_output))
      max_integral == RMul(output_range, R(IntegralRangeFactor))
      new_integral == RAdd(integral0, integral_update)
      flipped == SignFlip(prev_integral0, new_integral)
  IN  IF RLt(Zero, output_range)
      THEN IF prev_integral0 # None
           THEN IF flipped
                THEN IF oscillation0 + 1 >= OscillationLimit
                     THEN [integral |-> Zero, prev_integral |-> None,
                           oscillation_count |-> 0]
                     ELSE LET c == ClampIntegral(new_integral, max_integral)
                          IN  [integral |-> c, prev_integral |-> c,
                               oscillation_count |-> oscillation0 + 1]
                ELSE LET c == IF RLt(max_integral, RAbs(new_integral))
                              THEN ClampIntegral(new_integral, max_integral)
                              ELSE new_integral
                     IN  [integral |-> c, prev_integral |-> c, oscillation_count |-> 0]
           ELSE LET c == ClampIntegral(new_integral, max_integral)
                IN  [integral |-> c, prev_integral |-> c,
                     oscillation_count |-> oscillation0]
      ELSE [integral |-> new_integral, prev_integral |-> new_integral,
            oscillation_count |-> oscillation0]

\* pid.py:84-184  everything one step call computes
StepOutcome(pv, error, last_output, rate_limiter_enabled, rate_limit, tnow) ==
  LET dt == StepDt(tnow)
      d_pv == StepDpv(pv, dt)
      p == RMul(cfg.kp, error)
      i == integral
      d == RNeg(RMul(cfg.kd, d_pv))
      u_pid == RAdd(RAdd(p, i), d)
      u_sat == StepUsat(u_pid)
      u_out == StepUout(u_sat, last_output, rate_limiter_enabled, rate_limit, dt)
      output_saturated == OutputSaturated(u_pid)
      rate_limited == RateLimited(u_out, u_sat, last_output, rate_limiter_enabled, rate_limit)
      sat1 == IF output_saturated \/ rate_limited THEN saturation_count + 1 ELSE 0
      healed == sat1 > SaturationLimit
      integral0 == IF healed THEN Zero ELSE integral
      sat2 == IF healed THEN 0 ELSE sat1
      osc0 == IF healed THEN 0 ELSE oscillation_count
      prev_integral0 == IF healed THEN None ELSE prev_integral
      integral_update == IntegralUpdate(error, dt, u_out, u_pid, output_saturated, rate_limited)
      upd == ApplyIntegralUpdate(integral0, prev_integral0, osc0, integral_update)
      timed == RLt(Zero, dt)
  IN  [dt |-> dt, output |-> u_out, p_term |-> p, i_term |-> i, d_term |-> d,
       output_pre_rate_limit |-> u_sat, u_pid |-> u_pid,
       output_saturated |-> output_saturated, rate_limited |-> rate_limited,
       healed |-> timed /\ healed,
       flipped |-> /\ timed /\ prev_integral0 # None
                   /\ OppositeSigns(prev_integral0, RAdd(integral0, integral_update)),
       integral |-> IF timed THEN upd.integral ELSE integral,
       prev_integral |-> IF timed THEN upd.prev_integral ELSE prev_integral,
       oscillation_count |-> IF timed THEN upd.oscillation_count ELSE oscillation_count,
       saturation_count |-> IF timed THEN sat2 ELSE saturation_count]

\* <<last_output, rate_limiter_enabled, rate_limit>> of a step call: the
\* limiter off and no last output; the limiter on with the previous output
\* or with a value of the caller's own
RateArgs ==
  {<<None, FALSE, Zero>>}
  \cup {<<lo, TRUE, rl>> :
          lo \in {ForeignLastOutput} \cup (IF call.output # None THEN {call.output} ELSE {}),
          rl \in RateLimits}

\* PID.step: the controller's state after the call
step(pv, error, last_output, rate_limiter_enabled, rate_limit, tnow) ==
  LET o == StepOutcome(pv, error, last_output, rate_limiter_enabled, rate_limit, tnow)
  IN  /\ integral' = o.integral
      /\ prev_integral' = o.prev_integral
      /\ oscillation_count' = o.oscillation_count
      /\ saturation_count' = o.saturation_count
      /\ prev_pv' = pv
      /\ prev_t' = R(tnow)
      /\ prev_error' = error
      /\ UNCHANGED <<cfg, kaw>>

\* a retuning that also clears the integral
update_config_ClearingIntegral(c) ==
  /\ cfg' = c
  /\ kaw' = _compute_kaw(c.kp)
  /\ integral' = Zero
  /\ UNCHANGED <<prev_pv, prev_t, prev_error, prev_integral,
                 oscillation_count, saturation_count>>

\* PID.update_config
update_config(c) ==
  /\ cfg' = c
  /\ kaw' = _compute_kaw(c.kp)
  /\ UNCHANGED <<integral, prev_pv, prev_t, prev_error, prev_integral,
                 oscillation_count, saturation_count>>

\* PID.reset
reset ==
  /\ integral' = Zero
  /\ prev_pv' = None
  /\ prev_t' = None
  /\ prev_error' = None
  /\ prev_integral' = None
  /\ oscillation_count' = 0
  /\ saturation_count' = 0
  /\ UNCHANGED <<cfg, kaw>>

\* PID.apply_options
apply_options(c) == update_config(c)

\* pid.py:189-195  the derivative term bumpless_transfer solves against
BumplessDTerm(pv, tnow) ==
  LET dt == IF prev_t = None THEN Zero ELSE RMax(DtFloor, RSub(R(tnow), prev_t))
  IN  IF pv = None \/ prev_pv = None \/ dt = Zero THEN Zero
      ELSE RDiv(RMul(RNeg(cfg.kd), RSub(pv, prev_pv)), dt)

\* pid.py:197-200
BumplessIntegral(current_output, error, d_term) ==
  IF cfg.ki # Zero THEN RSub(RSub(current_output, RMul(cfg.kp, error)), d_term)
  ELSE Zero

\* PID.bumpless_transfer
bumpless_transfer(current_output, error, pv, tnow) ==
  /\ integral' = BumplessIntegral(current_output, error, BumplessDTerm(pv, tnow))
  /\ prev_pv' = pv
  /\ prev_t' = R(tnow)
  /\ prev_error' = error
  /\ UNCHANGED <<cfg, kaw, prev_integral, oscillation_count, saturation_count>>

(* --------------------------- ConsumerManager --------------------------- *)

\* the longest consumer list a caller passes
MaxConsumers == 2

\* consumer.get(CONSUMER_ID) is None
NoId == "<None>"

\* consumer_manager.py:318  abs(ep - priority) < 0.01
PriorityTolerance == <<1, 100>>
\* consumer_manager.py:266  _coerce_float(..., 999.0)
DefaultPriority == R(999)

Consumer(id, priority) == [id |-> id, priority |-> priority]

\* the consumer records a caller's list is made of; priorities 5.0, 5.008
\* and 5.016 are pairwise neighbours within the tolerance but 5.0 and 5.016
\* are not
ConsumerRecords ==
  { Consumer("a", R(5)),
    Consumer("b", <<626, 125>>),
    Consumer("b", <<627, 125>>),
    Consumer("", <<627, 125>>),
    Consumer(NoId, R(7)),
    Consumer("a", R(0)),
    Consumer("c", None) }

\* the ids that have a record in the runtime store
RuntimeIds == {"a", "b", "c", ""}
\* the ids whose enabled field is switched while the manager runs
SwitchedIds == {"a", ""}

\* an optional value that is present
Some(x) == <<x>>

\* helpers.get_consumer_runtime(...).get(RUNTIME_FIELD_ENABLED, True)
get_consumer_runtime_enabled(consumer_id) == runtime_enabled[consumer_id]

\* ConsumerManager.is_enabled
is_enabled(consumer) ==
  IF consumer.id = NoId THEN FALSE
  ELSE get_consumer_runtime_enabled(consumer.id)

\* _coerce_float
_coerce_float(value, default) == IF value = None THEN default ELSE value

\* ConsumerManager.get_priority
get_priority(consumer) == _coerce_float(consumer.priority, DefaultPriority)

\* consumer_manager.py:276  if consumer_id:
HasId(consumer) == consumer.id # NoId /\ consumer.id # ""

\* consumer_manager.py:279  (consumer_id, enabled, priority)
Signature(consumer) == <<consumer.id, is_enabled(consumer), get_priority(consumer)>>

\* ConsumerManager.get_consumers_hash: the sorted tuple of signatures, kept
\* as the number of times each signature occurs
get_consumers_hash(list) ==
  LET idx == {i \in DOMAIN list : HasId(list[i])}
      sigs == {Signature(list[i]) : i \in idx}
  IN  [sg \in sigs |-> Cardinality({i \in idx : Signature(list[i]) = sg})]

\* priorities compared for equality, without the tolerance
Found_Exact(enabled_priorities, priority) ==
  \E k \in DOMAIN enabled_priorities : enabled_priorities[k] = priority

\* consumer_manager.py:316-320  some collected priority is within the tolerance
Found(enabled_priorities, priority) ==
  \E k \in DOMAIN enabled_priorities :
    RLt(RAbs(RSub(enabled_priorities[k], priority)), PriorityTolerance)

\* consumer_manager.py:309-322  the loop over the first n consumers
RECURSIVE CollectLoop(_, _)
CollectLoop(list, n) ==
  IF n = 0 THEN <<>>
  ELSE LET enabled_priorities == CollectLoop(list, n - 1)
           consumer == list[n]
           priority == get_priority(consumer)
       IN  IF ~is_enabled(consumer) THEN enabled_priorities
           ELSE IF RLt(Zero, priority) /\ ~Found(enabled_priorities, priority)
                THEN Append(enabled_priorities, priority)
                ELSE enabled_priorities

\* the cached list served without comparing the hash
CacheHit_AnyCached(list, use_cache) ==
  use_cache /\ _cached_enabled_priorities # None

\* consumer_manager.py:299-305  the cached list is served
CacheHit(list, use_cache) ==
  /\ use_cache
  /\ _cached_enabled_priorities # None
  /\ _cached_consumers_hash = Some(get_consumers_hash(list))

\* the recomputed list stored whatever use_cache is
StoresResult_Always(use_cache) == TRUE

\* consumer_manager.py:332  if use_cache: the recomputed list is stored
StoresResult(use_cache) == use_cache

\* ConsumerManager.collect_enabled_priorities
collect_enabled_priorities(list, use_cache) ==
  IF CacheHit(list, use_cache)
  THEN /\ cm_call' = [name |-> "collect_enabled_priorities", use_cache |-> use_cache,
                      result |-> _cached_enabled_priorities[1], hit |-> TRUE,
                      cached_before |-> _cached_enabled_priorities,
                      arg |-> None, value |-> None]
       /\ UNCHANGED <<_cached_enabled_priorities, _cached_consumers_hash>>
  ELSE LET enabled_priorities == CollectLoop(list, Len(list))
       IN  /\ cm_call' = [name |-> "collect_enabled_priorities", use_cache |-> use_cache,
                          result |-> enabled_priorities, hit |-> FALSE,
                          cached_before |-> _cached_enabled_priorities,
                          arg |-> None, value |-> None]
           /\ IF StoresResult(use_cache)
              THEN /\ _cached_enabled_priorities' = Some(enabled_priorities)
                   /\ _cached_consumers_hash' = Some(get_consumers_hash(list))
              ELSE UNCHANGED <<_cached_enabled_priorities, _cached_consumers_hash>>

\* ConsumerManager.invalidate_cache
invalidate_cache ==
  /\ _cached_enabled_priorities' = None
  /\ _cached_consumers_hash' = None
  /\ _cached_consumer_lookups' = <<>>

NoCmCall ==
  [name |-> "none", use_cache |-> FALSE, result |-> <<>>, hit |-> FALSE,
   cached_before |-> None, arg |-> None, value |-> None]

(* ----------------------- lookup of a consumer by id -------------------- *)

\* the ids consumers are looked up by; NoId is a lookup of None
LookupIds == {"a", "b", "c", "", NoId}

\* a cached consumer served without looking for it in the list
StillListed_Always(cached, list) == TRUE

\* consumer_manager.py:479  if cached in consumers:
StillListed(cached, list) == \E i \in DOMAIN list : list[i] = cached

\* consumer_manager.py:483-484  the positions of the consumers with the id
Matching(list, consumer_id) == {i \in DOMAIN list : list[i].id = consumer_id}

\* what get_consumer_by_id returns: a consumer, or None
Returned(consumer) == [found |-> TRUE, consumer |-> consumer]
Absent == [found |-> FALSE, consumer |-> None]

\* ConsumerManager.get_consumer_by_id
get_consumer_by_id(list, consumer_id) ==
  LET lookup == [NoCmCall EXCEPT !.name = "get_consumer_by_id",
                               !.arg = consumer_id,
                               !.cached_before = Some(_cached_consumer_lookups)]
  IN  IF /\ consumer_id \in DOMAIN _cached_consumer_lookups
         /\ StillListed(_cached_consumer_lookups[consumer_id], list)
      THEN /\ cm_call' = [lookup EXCEPT
                            !.value = Returned(_cached_consumer_lookups[consumer_id])]
           /\ UNCHANGED _cached_consumer_lookups
      ELSE IF Matching(list, consumer_id) # {}
      THEN LET first == CHOOSE i \in Matching(list, consumer_id) :
                          \A j \in Matching(list, consumer_id) : i <= j
           IN  /\ _cached_consumer_lookups' =
                    [id \in DOMAIN _cached_consumer_lookups \cup {consumer_id} |->
                       IF id = consumer_id THEN list[first]
                       ELSE _cached_consumer_lookups[id]]
               /\ cm_call' = [lookup EXCEPT !.value = Returned(list[first])]
      ELSE /\ cm_call' = [lookup EXCEPT !.value = Absent]
           /\ UNCHANGED _cached_consumer_lookups

(* ------------- consumer configuration and validation of a list --------- *)

\* consumer.get(key) of a key the consumer does not have
NoType == NoId
NoEntity == NoId

\* const.CONSUMER_TYPE_CONTROLLED, const.CONSUMER_TYPE_BINARY
CONSUMER_TYPE_CONTROLLED == "controlled"
CONSUMER_TYPE_BINARY == "binary"

\* the entities consumers refer to
PowerEntity == "number.heater_power"
StateEntity == "switch.heater"

\* a consumer mapping with the keys the manager reads; None stands for a
\* key the mapping does not have
Device(id, priority, type, power_target, state_entity, max_power_w) ==
  [id |-> id, priority |-> priority, type |-> type,
   power_target_entity_id |-> power_target, state_entity_id |-> state_entity,
   max_power_w |-> max_power_w, step_w |-> None, pid_deadband_pct |-> None,
   threshold_w |-> None, start_delay_s |-> None, stop_delay_s |-> None]

\* the consumer mappings a configuration is made of
DeviceRecords ==
  { Device("a", R(5), CONSUMER_TYPE_CONTROLLED, PowerEntity, StateEntity, R(2)),
    Device("a", R(0), "thermostat", NoEntity, NoEntity, None),
    Device("b", None, CONSUMER_TYPE_BINARY, NoEntity, StateEntity, None),
    Device("", R(0), "thermostat", PowerEntity, StateEntity, None),
    Device(NoId, R(5), CONSUMER_TYPE_CONTROLLED, PowerEntity, NoEntity, R(2)),
    [Device("b", R(5), CONSUMER_TYPE_CONTROLLED, PowerEntity, StateEntity, R(0))
       EXCEPT !.step_w = R(3), !.pid_deadband_pct = R(4), !.threshold_w = R(6),
              !.start_delay_s = R(8), !.stop_delay_s = R(9)] }

\* one entry of the error list: what is wrong and at which list position
Error(kind, idx) == [kind |-> kind, idx |-> idx]

\* a priority of zero accepted
InvalidPriority_NegativeOnly(priority) == RLt(priority, Zero)

\* consumer_manager.py:371  if priority <= 0:
InvalidPriority(priority) == RLe(priority, Zero)

\* consumer_manager.py:378  if consumer_type not in (controlled, binary):
InvalidType(type) == type \notin {CONSUMER_TYPE_CONTROLLED, CONSUMER_TYPE_BINARY}

\* consumer_manager.py:358-381  the loop over the first n consumers
RECURSIVE ValidateLoop(_, _)
ValidateLoop(list, n) ==
  IF n = 0 THEN [errors |-> <<>>, consumer_ids |-> {}]
  ELSE LET acc == ValidateLoop(list, n - 1)
           consumer == list[n]
           priority_error ==
             IF InvalidPriority(get_priority(consumer))
             THEN <<Error("invalid_priority", n)>> ELSE <<>>
           type_error ==
             IF InvalidType(consumer.type)
             THEN <<Error("invalid_type", n)>> ELSE <<>>
       IN  IF ~HasId(consumer)
           THEN [acc EXCEPT !.errors = Append(@, Error("missing_id", n))]
           ELSE IF consumer.id \in acc.consumer_ids
           THEN [acc EXCEPT !.errors = Append(@, Error("duplicate_id", n))]
           ELSE [errors |-> acc.errors \o priority_error \o type_error,
                 consumer_ids |-> acc.consumer_ids \cup {consumer.id}]

\* ConsumerManager.validate_consumers
validate_consumers(list) ==
  LET errors == ValidateLoop(list, Len(list)).errors
  IN  [is_valid |-> Len(errors) = 0, errors |-> errors]

(* ----------------- the state machine and entity accessibility ---------- *)

\* hass.states.get(entity_id) of an entity the state machine does not hold
NoState == "<missing>"

\* the number entity a consumer parameter override is registered as
OverrideEntity == "number.heater_override"

Entities == {PowerEntity, StateEntity, OverrideEntity}

\* the state strings each entity takes
EntityStates(entity) ==
  CASE entity = PowerEntity -> {NoState, "unavailable", "unknown", "2", "-5"}
    [] entity = StateEntity ->
         {NoState, "unavailable", "unknown", "on", "off", "2", "junk"}
    [] entity = OverrideEntity -> {NoState, "unavailable", "unknown", "7", "junk"}

\* consumer_manager.py:412, 425  if power_target: / if state_entity:
Truthy(entity_id) == entity_id # NoEntity /\ entity_id # ""

\* consumer_manager.py:418  state.state in ("unavailable", "unknown")
Unavailable(state) == state \in {"unavailable", "unknown"}

\* one entry of the warning list: what is wrong, at which list position
Warning(kind, idx) == [kind |-> kind, idx |-> idx]

\* consumer_manager.py:410-422  the check of the power target entity
PowerTargetWarnings(consumer, idx) ==
  LET power_target == consumer.power_target_entity_id
  IN  IF ~Truthy(power_target) THEN <<>>
      ELSE IF states[power_target] = NoState
      THEN <<Warning("power_target_not_found", idx)>>
      ELSE IF Unavailable(states[power_target])
      THEN <<Warning("power_target_unavailable", idx)>>
      ELSE <<>>

\* consumer_manager.py:424-431  the check of the state entity
StateEntityWarnings(consumer, idx) ==
  LET state_entity == consumer.state_entity_id
  IN  IF ~Truthy(state_entity) THEN <<>>
      ELSE IF states[state_entity] = NoState
      THEN <<Warning("state_entity_not_found", idx)>>
      ELSE <<>>

\* consumer_manager.py:405-431  the loop over the first n consumers
RECURSIVE AccessLoop(_, _)
AccessLoop(list, n) ==
  IF n = 0 THEN <<>>
  ELSE LET warnings == AccessLoop(list, n - 1)
           consumer == list[n]
       IN  IF ~HasId(consumer) THEN warnings
           ELSE warnings \o PowerTargetWarnings(consumer, n)
                         \o StateEntityWarnings(consumer, n)

\* ConsumerManager.validate_entity_accessibility
validate_entity_accessibility(list) ==
  LET warnings == AccessLoop(list, Len(list))
  IN  [all_accessible |-> Len(warnings) = 0, warnings |-> warnings]

(* ------------------- overridable consumer parameters ------------------- *)

\* the parameter suffixes an override entity is registered under
Parameters ==
  {"start_delay_s", "stop_delay_s", "step_w", "pid_deadband_pct", "threshold_w"}

\* const.CONSUMER_DEFAULT_*: the hard-coded defaults, as stand-in values that
\* differ from each other and from every configured and overriding value
CONSUMER_DEFAULT_START_DELAY_S == R(60)
CONSUMER_DEFAULT_STOP_DELAY_S == R(30)
CONSUMER_DEFAULT_STEP_W == R(100)
CONSUMER_DEFAULT_PID_DEADBAND_PCT == R(10)
CONSUMER_DEFAULT_THRESHOLD_W == R(500)

HardCodedDefault(parameter) ==
  CASE parameter = "start_delay_s" -> CONSUMER_DEFAULT_START_DELAY_S
    [] parameter = "stop_delay_s" -> CONSUMER_DEFAULT_STOP_DELAY_S
    [] parameter = "step_w" -> CONSUMER_DEFAULT_STEP_W
    [] parameter = "pid_deadband_pct" -> CONSUMER_DEFAULT_PID_DEADBAND_PCT
    [] parameter = "threshold_w" -> CONSUMER_DEFAULT_THRESHOLD_W

\* float(state.state) over the state strings of the model; None when it raises
ParseFloat(state) ==
  CASE state = "2" -> R(2)
    [] state = "-5" -> R(0 - 5)
    [] state = "7" -> R(7)
    [] OTHER -> None

\* ConsumerManager.get_consumer_number_entity_id: the registry lookup of the
\* unique id made of the consumer id and the suffix
get_consumer_number_entity_id(consumer_id, suffix) ==
  IF registry = <<consumer_id, suffix>> THEN OverrideEntity ELSE NoEntity

\* ConsumerManager._read_number_entity_value
_read_number_entity_value(entity_id, default) ==
  IF ~Truthy(entity_id) THEN default
  ELSE IF states[entity_id] = NoState \/ Unavailable(states[entity_id]) THEN default
  ELSE IF ParseFloat(states[entity_id]) = None THEN default
  ELSE ParseFloat(states[entity_id])

\* the consumer's configured value never read
ConfiguredOrDefault_AlwaysDefault(consumer, key, default) == default

\* consumer_manager.py:117, 123, 129  float(consumer.get(key, default))
ConfiguredOrDefault(consumer, key, default) ==
  IF consumer[key] = None THEN default ELSE consumer[key]

\* ConsumerManager.get_consumer_delay_seconds
get_consumer_delay_seconds(consumer_id, is_start) ==
  LET suffix == IF is_start THEN "start_delay_s" ELSE "stop_delay_s"
      default == IF is_start THEN CONSUMER_DEFAULT_START_DELAY_S
                 ELSE CONSUMER_DEFAULT_STOP_DELAY_S
      entity_id == get_consumer_number_entity_id(consumer_id, suffix)
  IN  _read_number_entity_value(entity_id, default)

\* ConsumerManager.get_consumer_step_w
get_consumer_step_w(consumer_id, consumer) ==
  LET entity_id == get_consumer_number_entity_id(consumer_id, "step_w")
      default == ConfiguredOrDefault(consumer, "step_w", CONSUMER_DEFAULT_STEP_W)
  IN  _read_number_entity_value(entity_id, default)

\* ConsumerManager.get_consumer_pid_deadband_pct
get_consumer_pid_deadband_pct(consumer_id, consumer) ==
  LET entity_id == get_consumer_number_entity_id(consumer_id, "pid_deadband_pct")
      default == ConfiguredOrDefault(consumer, "pid_deadband_pct",
                                     CONSUMER_DEFAULT_PID_DEADBAND_PCT)
  IN  _read_number_entity_value(entity_id, default)

\* ConsumerManager.get_consumer_threshold_w
get_consumer_threshold_w(consumer_id, consumer) ==
  LET entity_id == get_consumer_number_entity_id(consumer_id, "threshold_w")
      default == ConfiguredOrDefault(consumer, "threshold_w",
                                     CONSUMER_DEFAULT_THRESHOLD_W)
  IN  _read_number_entity_value(entity_id, default)

\* the getter of a parameter, called with the consumer and its own id
GetParameter(consumer, parameter) ==
  CASE parameter = "start_delay_s" -> get_consumer_delay_seconds(consumer.id, TRUE)
    [] parameter = "stop_delay_s" -> get_consumer_delay_seconds(consumer.id, FALSE)
    [] parameter = "step_w" -> get_consumer_step_w(consumer.id, consumer)
    [] parameter = "pid_deadband_pct" ->
         get_consumer_pid_deadband_pct(consumer.id, consumer)
    [] parameter = "threshold_w" -> get_consumer_threshold_w(consumer.id, consumer)

(* ---------------------- physical device feedback ----------------------- *)

\* the ids whose runtime record the allocation loop writes commands to
CommandedIds == {"a", "b"}
\* the powers it commands; None is a record without the cmd_w field
CommandedPowers == {None, R(0), R(2)}

\* what read_physical_device_state returns: True, False or None
DeviceOn == "True"
DeviceOff == "False"
DeviceUnknown == "None"

\* consumer_manager.py:148  the state strings that read as on
OnTokens == {"on", "true", "home", "open", "1", "enabled"}
\* consumer_manager.py:150  the state strings that read as off
OffTokens == {"off", "false", "not_home", "closed", "0", "disabled"}

\* ConsumerManager.read_physical_device_state
read_physical_device_state(consumer) ==
  LET state_entity_id == consumer.state_entity_id
      value == states[state_entity_id]
  IN  IF ~Truthy(state_entity_id) THEN DeviceUnknown
      ELSE IF value = NoState \/ Unavailable(value) THEN DeviceUnknown
      ELSE IF value \in OnTokens THEN DeviceOn
      ELSE IF value \in OffTokens THEN DeviceOff
      ELSE IF ParseFloat(value) = None THEN DeviceUnknown
      ELSE IF RLt(Zero, ParseFloat(value)) THEN DeviceOn
      ELSE DeviceOff

\* ConsumerManager.read_physical_device_power
read_physical_device_power(consumer) ==
  LET power_entity_id == consumer.power_target_entity_id
  IN  IF ~Truthy(power_entity_id) THEN None
      ELSE IF states[power_entity_id] = NoState
              \/ Unavailable(states[power_entity_id]) THEN None
      ELSE ParseFloat(states[power_entity_id])

\* the tolerance of the caller's is_at_max predicate
AtMaxTolerance == <<1, 2>>

\* the is_at_max predicate the caller supplies: cmd >= maximum - tolerance
is_at_max(cmd, maximum) == RLe(RSub(maximum, AtMaxTolerance), cmd)

\* float(runtime.get(RUNTIME_FIELD_CMD_W, 0.0))
get_consumer_runtime_cmd_w(consumer_id) ==
  IF runtime_cmd_w[consumer_id] = None THEN Zero ELSE runtime_cmd_w[consumer_id]

\* bool(runtime.get(RUNTIME_FIELD_IS_ON, False))
get_consumer_runtime_is_on(consumer_id) == runtime_is_on[consumer_id]

\* float(consumer.get(CONSUMER_MAX_POWER_W, 0.0))
MaxPower(consumer) == IF consumer.max_power_w = None THEN Zero ELSE consumer.max_power_w

\* the power reading never used
PowerUsable_Never(actual_power, max_power) == FALSE

\* consumer_manager.py:218  if actual_power is not None and max_power > 0:
PowerUsable(actual_power, max_power) ==
  actual_power # None /\ RLt(Zero, max_power)

\* ConsumerManager.is_consumer_finished_starting
is_consumer_finished_starting(consumer) ==
  LET consumer_type == consumer.type
      device_on == read_physical_device_state(consumer)
      consumer_id == consumer.id
      actual_power == read_physical_device_power(consumer)
      max_power == MaxPower(consumer)
  IN  IF device_on = DeviceUnknown
      THEN IF consumer_id = NoId THEN FALSE
           ELSE IF consumer_type = CONSUMER_TYPE_CONTROLLED
           THEN is_at_max(get_consumer_runtime_cmd_w(consumer_id), max_power)
           ELSE get_consumer_runtime_is_on(consumer_id)
      ELSE IF device_on = DeviceOff THEN FALSE
      ELSE IF consumer_type = CONSUMER_TYPE_CONTROLLED
      THEN IF PowerUsable(actual_power, max_power)
           THEN is_at_max(actual_power, max_power)
           ELSE IF consumer_id = NoId THEN FALSE
           ELSE is_at_max(get_consumer_runtime_cmd_w(consumer_id), max_power)
      ELSE TRUE

\* a consumer taken to have stopped whatever power was commanded last
StoppedByCommand_Always(cmd_w) == TRUE

\* consumer_manager.py:251  return cmd_w <= 0.0
StoppedByCommand(cmd_w) == RLe(cmd_w, Zero)

\* ConsumerManager.is_consumer_finished_stopping
is_consumer_finished_stopping(consumer) ==
  LET device_on == read_physical_device_state(consumer)
      consumer_id == consumer.id
  IN  IF device_on = DeviceUnknown
      THEN IF consumer_id = NoId THEN TRUE
           ELSE IF consumer.type = CONSUMER_TYPE_CONTROLLED
           THEN StoppedByCommand(get_consumer_runtime_cmd_w(consumer_id))
           ELSE ~get_consumer_runtime_is_on(consumer_id)
      ELSE device_on # DeviceOn

(* --------------------- queries on malformed values --------------------- *)

\* a field that is present with the value null, and one holding a string
\* that is not a number
Null == <<"null">>
NotANumber == <<"abc">>

\* float(value) raises TypeError on null and ValueError on a non-numeric string
FloatRaises(value) == value \in {Null, NotANumber}

\* consumer mappings with a null or non-numeric configured value
MalformedRecords ==
  { [Device("a", R(5), CONSUMER_TYPE_CONTROLLED, PowerEntity, StateEntity, R(2))
       EXCEPT !.step_w = Null],
    Device("a", R(5), CONSUMER_TYPE_CONTROLLED, PowerEntity, StateEntity, Null),
    [Device("b", R(5), CONSUMER_TYPE_BINARY, PowerEntity, StateEntity, None)
       EXCEPT !.pid_deadband_pct = Null, !.threshold_w = NotANumber] }

\* ConsumerManager.is_available
is_available(consumer) ==
  LET power_target == consumer.power_target_entity_id
  IN  IF Truthy(power_target)
      THEN ~(states[power_target] = NoState \/ Unavailable(states[power_target]))
      ELSE TRUE

\* the queries of the manager
Queries ==
  {"get_consumer_start_delay", "get_consumer_stop_delay", "get_consumer_step_w",
   "get_consumer_pid_deadband_pct", "get_consumer_threshold_w",
   "read_physical_device_state", "read_physical_device_power",
   "is_consumer_finished_starting", "is_consumer_finished_stopping",
   "is_available"}

\* consumer_manager.py:198-227  the float() calls is_consumer_finished_starting
\* reaches, none of them inside a try
FinishedStartingRaises(consumer) ==
  LET device_on == read_physical_device_state(consumer)
      controlled == consumer.type = CONSUMER_TYPE_CONTROLLED
      cmd_w == runtime_cmd_w[consumer.id]
  IN  IF device_on = DeviceUnknown
      THEN /\ consumer.id # NoId /\ controlled
           /\ (FloatRaises(cmd_w) \/ FloatRaises(consumer.max_power_w))
      ELSE IF device_on = DeviceOff THEN FALSE
      ELSE /\ controlled
           /\ \/ FloatRaises(consumer.max_power_w)
              \/ /\ ~PowerUsable(read_physical_device_power(consumer), MaxPower(consumer))
                 /\ consumer.id # NoId
                 /\ FloatRaises(cmd_w)

\* consumer_manager.py:240-251  the float() call is_consumer_finished_stopping
\* reaches
FinishedStoppingRaises(consumer) ==
  /\ read_physical_device_state(consumer) = DeviceUnknown
  /\ consumer.id # NoId
  /\ consumer.type = CONSUMER_TYPE_CONTROLLED
  /\ FloatRaises(runtime_cmd_w[consumer.id])

\* the query raises instead of returning
Raises(query, consumer) ==
  CASE query = "get_consumer_step_w" -> FloatRaises(consumer.step_w)
    [] query = "get_consumer_pid_deadband_pct" -> FloatRaises(consumer.pid_deadband_pct)
    [] query = "get_consumer_threshold_w" -> FloatRaises(consumer.threshold_w)
    [] query = "is_consumer_finished_starting" -> FinishedStartingRaises(consumer)
    [] query = "is_consumer_finished_stopping" -> FinishedStoppingRaises(consumer)
    [] OTHER -> FALSE

\* what the query returns when it does not raise
QueryValue(query, consumer) ==
  CASE query = "get_consumer_start_delay" -> get_consumer_delay_seconds(consumer.id, TRUE)
    [] query = "get_consumer_stop_delay" -> get_consumer_delay_seconds(consumer.id, FALSE)
    [] query = "get_consumer_step_w" -> get_consumer_step_w(consumer.id, consumer)
    [] query = "get_consumer_pid_deadband_pct" ->
         get_consumer_pid_deadband_pct(consumer.id, consumer)
    [] query = "get_consumer_threshold_w" ->
         get_consumer_threshold_w(consumer.id, consumer)
    [] query = "read_physical_device_state" -> read_physical_device_state(consumer)
    [] query = "read_physical_device_power" -> read_physical_device_power(consumer)
    [] query = "is_consumer_finished_starting" -> is_consumer_finished_starting(consumer)
    [] query = "is_consumer_finished_stopping" -> is_consumer_finished_stopping(consumer)
    [] query = "is_available" -> is_available(consumer)

\* Home Assistant before any entity has reported and any command was issued
InitHass ==
  /\ states = [entity \in Entities |-> NoState]
  /\ registry = None
  /\ runtime_cmd_w = [id \in RuntimeIds |-> None]
  /\ runtime_is_on = [id \in RuntimeIds |-> FALSE]

\* ConsumerManager.__init__, an empty consumer list and an untouched runtime store
InitCM ==
  /\ consumers = <<>>
  /\ runtime_enabled = [id \in RuntimeIds |-> TRUE]
  /\ _cached_enabled_priorities = None
  /\ _cached_consumers_hash = None
  /\ _cached_consumer_lookups = <<>>
  /\ cm_call = NoCmCall
  /\ InitHass

(* ------------------------- calls on the controller --------------------- *)

\* the monotonic clock moves on by elapsed seconds between two calls
Advance(elapsed) == now + elapsed <= MaxClock /\ now' = now + elapsed

\* how many updates in a row, this one included, flipped the sign of the
\* integral; a third flip, a self-healing reset and an update without a
\* flip start the count again
Flips(o) ==
  LET run == IF o.healed \/ call.flips >= 3 THEN 0 ELSE call.flips
  IN  IF o.dt = Zero THEN call.flips
      ELSE IF o.flipped THEN run + 1
      ELSE 0

\* the record of a step call with sample s and limiter arguments ra
StepRecord(s, ra, o) ==
  [NoCall EXCEPT !.name = "step", !.pv = s[1], !.error = s[2],
                 !.last_output = ra[1], !.rate_limiter_enabled = ra[2],
                 !.rate_limit = ra[3], !.dt = o.dt, !.output = o.output,
                 !.p_term = o.p_term, !.i_term = o.i_term, !.d_term = o.d_term,
                 !.output_pre_rate_limit = o.output_pre_rate_limit,
                 !.u_pid = o.u_pid, !.output_saturated = o.output_saturated,
                 !.rate_limited = o.rate_limited, !.integral_before = integral,
                 !.integral_after = o.integral,
                 !.healed = o.healed, !.flips = Flips(o)]

Step ==
  \E s \in Samples, ra \in RateArgs, elapsed \in Elapsed :
    LET o == StepOutcome(s[1], s[2], ra[1], ra[2], ra[3], now + elapsed)
    IN  /\ Advance(elapsed)
        /\ step(s[1], s[2], ra[1], ra[2], ra[3], now + elapsed)
        /\ UNCHANGED cmVars
        /\ call' = [StepRecord(s, ra, o) EXCEPT !.before = Before(call)]

UpdateConfig ==
  \E c \in PIDConfig :
    /\ Advance(1)
    /\ update_config(c)
    /\ UNCHANGED cmVars
    /\ call' = [NoCall EXCEPT !.name = "update_config", !.flips = call.flips,
                               !.before = Before(call)]

ApplyOptions ==
  \E c \in PIDConfig :
    /\ Advance(1)
    /\ apply_options(c)
    /\ UNCHANGED cmVars
    /\ call' = [NoCall EXCEPT !.name = "apply_options", !.flips = call.flips,
                               !.before = Before(call)]

Reset ==
  /\ Advance(1)
  /\ reset
  /\ UNCHANGED cmVars
  /\ call' = [NoCall EXCEPT !.name = "reset", !.before = Before(call)]

BumplessTransfer ==
  \E current_output \in CurrentOutputs, s \in Samples \cup {<<None, R(1)>>},
     elapsed \in Elapsed :
    /\ Advance(elapsed)
    /\ bumpless_transfer(current_output, s[2], s[1], now + elapsed)
    /\ UNCHANGED cmVars
    /\ call' = [NoCall EXCEPT !.name = "bumpless_transfer", !.pv = s[1],
                  !.error = s[2], !.current_output = current_output,
                  !.integral_before = integral, !.integral_after = integral',
                  !.flips = call.flips, !.before = Before(call)]

NextPID == Step \/ UpdateConfig \/ ApplyOptions \/ Reset \/ BumplessTransfer

\* the controller beside a manager that is constructed and left alone
Init == InitPID /\ InitCM

Spec == Init /\ [][NextPID]_vars

(* --------------------------- a control loop ---------------------------- *)

\* the control loop is followed for this many cycles
MaxCycles == 12

\* the tunings a loop runs under: PI, kp = 0, and min_output = max_output
LoopConfigs == {Cfg(1, 1, 0, 0, 2), Cfg(0, 1, 0, -1, 1), Cfg(1, 1, 0, 1, 1)}

\* <<pv, error>> of the cycles of a loop
LoopSamples == {<<R(0), R(3)>>, <<R(0), R(1)>>, <<R(0), R(-3)>>}

\* one cycle of the loop: a step call one second after the previous one
LoopStep ==
  \E s \in LoopSamples, ra \in RateArgs :
    LET o == StepOutcome(s[1], s[2], ra[1], ra[2], ra[3], now + 1)
    IN  /\ now + 1 <= MaxCycles
        /\ now' = now + 1
        /\ step(s[1], s[2], ra[1], ra[2], ra[3], now + 1)
        /\ UNCHANGED cmVars
        /\ call' = StepRecord(s, ra, o)

NextLoop == LoopStep

InitLoop == InitPID /\ cfg \in LoopConfigs /\ InitCM

SpecLoop == InitLoop /\ [][NextLoop]_vars

(* -------------------------- calls on the manager ----------------------- *)

CollectEnabledPriorities ==
  \E use_cache \in BOOLEAN :
    /\ collect_enabled_priorities(consumers, use_cache)
    /\ UNCHANGED <<consumers, runtime_enabled, _cached_consumer_lookups, hassVars, pidVars>>

InvalidateCache ==
  /\ invalidate_cache
  /\ cm_call' = [NoCmCall EXCEPT !.name = "invalidate_cache"]
  /\ UNCHANGED <<consumers, runtime_enabled, hassVars, pidVars>>

\* the caller appends a consumer to its list
AddConsumer ==
  \E consumer \in ConsumerRecords :
    /\ Len(consumers) < MaxConsumers
    /\ consumers' = Append(consumers, consumer)
    /\ cm_call' = [NoCmCall EXCEPT !.name = "add_consumer"]
    /\ UNCHANGED <<runtime_enabled, _cached_enabled_priorities,
                   _cached_consumers_hash, _cached_consumer_lookups, hassVars, pidVars>>

\* the caller takes a consumer out of its list
RemoveConsumer ==
  \E i \in DOMAIN consumers :
    /\ consumers' = SubSeq(consumers, 1, i - 1) \o SubSeq(consumers, i + 1, Len(consumers))
    /\ cm_call' = [NoCmCall EXCEPT !.name = "remove_consumer"]
    /\ UNCHANGED <<runtime_enabled, _cached_enabled_priorities,
                   _cached_consumers_hash, _cached_consumer_lookups, hassVars, pidVars>>

\* the enabled field of a consumer's runtime record is written
SetEnabled ==
  \E id \in SwitchedIds :
    /\ runtime_enabled' = [runtime_enabled EXCEPT ![id] = ~runtime_enabled[id]]
    /\ cm_call' = [NoCmCall EXCEPT !.name = "set_enabled"]
    /\ UNCHANGED <<consumers, _cached_enabled_priorities,
                   _cached_consumers_hash, _cached_consumer_lookups, hassVars, pidVars>>

NextCM ==
  \/ CollectEnabledPriorities \/ InvalidateCache
  \/ AddConsumer \/ RemoveConsumer \/ SetEnabled

\* the manager beside a controller that is constructed and left alone
InitManager ==
  /\ InitPID
  /\ cfg = Cfg(1, 1, 0, 0, 2)
  /\ InitCM

SpecCM == InitManager /\ [][NextCM]_vars

(* ------------------------ lookups on the manager ----------------------- *)

GetConsumerById ==
  \E consumer_id \in LookupIds :
    /\ get_consumer_by_id(consumers, consumer_id)
    /\ UNCHANGED <<consumers, runtime_enabled, _cached_enabled_priorities,
                   _cached_consumers_hash, hassVars, pidVars>>

NextLookup ==
  \/ GetConsumerById \/ InvalidateCache
  \/ AddConsumer \/ RemoveConsumer

SpecLookup == InitManager /\ [][NextLookup]_vars

(* -------------------- validation of a configuration -------------------- *)

cacheVars == <<_cached_enabled_priorities, _cached_consumers_hash,
               _cached_consumer_lookups>>

ValidateConsumers ==
  /\ cm_call' = [NoCmCall EXCEPT !.name = "validate_consumers",
                                 !.arg = consumers,
                                 !.value = validate_consumers(consumers)]
  /\ UNCHANGED <<consumers, runtime_enabled, cacheVars, hassVars, pidVars>>

ValidateEntityAccessibility ==
  /\ cm_call' = [NoCmCall EXCEPT !.name = "validate_entity_accessibility",
                                 !.arg = consumers,
                                 !.value = validate_entity_accessibility(consumers)]
  /\ UNCHANGED <<consumers, runtime_enabled, cacheVars, hassVars, pidVars>>

\* the configuration gains a consumer
AddDevice ==
  \E consumer \in DeviceRecords :
    /\ Len(consumers) < MaxConsumers
    /\ consumers' = Append(consumers, consumer)
    /\ cm_call' = [NoCmCall EXCEPT !.name = "add_consumer"]
    /\ UNCHANGED <<runtime_enabled, cacheVars, hassVars, pidVars>>

\* an entity consumers refer to reports a new state, or leaves the state machine
SetState ==
  \E entity \in {PowerEntity, StateEntity} :
    \E state \in EntityStates(entity) :
      /\ states' = [states EXCEPT ![entity] = state]
      /\ cm_call' = [NoCmCall EXCEPT !.name = "set_state"]
      /\ UNCHANGED <<consumers, runtime_enabled, cacheVars, registry,
                     runtime_cmd_w, runtime_is_on, pidVars>>

NextVal ==
  \/ ValidateConsumers \/ ValidateEntityAccessibility
  \/ AddDevice \/ RemoveConsumer \/ SetState

SpecVal == InitManager /\ [][NextVal]_vars

(* ---------------------- properties of the controller ------------------- *)

\* max(lo, min(hi, x))
Clamp(x, lo, hi) == RMax(lo, RMin(hi, x))

IsStep == call.name = "step"

\* a step call made while no previous timestamp was recorded
FirstStep == IsStep /\ call.dt = Zero

ProportionalOnly == RLt(Zero, cfg.kp) /\ cfg.ki = Zero /\ cfg.kd = Zero

\* C1: the first step of a fresh or just reset controller with kp > 0,
\* ki = kd = 0 and no last_output returns clamp(kp*error, min_output,
\* max_output); when kp*error exceeds max_output it returns max_output.
C1_FirstStepProportional ==
  (FirstStep /\ ProportionalOnly /\ call.last_output = None) =>
    /\ call.output = Clamp(RMul(cfg.kp, call.error), cfg.min_output, cfg.max_output)
    /\ (RLt(cfg.max_output, RMul(cfg.kp, call.error)) => call.output = cfg.max_output)

C1_Witness ==
  /\ FirstStep /\ ProportionalOnly /\ call.last_output = None
  /\ call.before.name = "reset"
  /\ RLt(cfg.max_output, RMul(cfg.kp, call.error))
  /\ call.output = cfg.max_output

\* C2: every step call returns an output within [min_output, max_output]
\* of the current config, whatever calls came before it and whatever
\* last_output the caller passed.
C2_OutputWithinLimits ==
  IsStep => RLe(cfg.min_output, call.output) /\ RLe(call.output, cfg.max_output)

\* C3: with min_output < max_output the stored integral is within
\* +-2*(max_output - min_output) after every step call.
C3_IntegralBounded ==
  (IsStep /\ RLt(cfg.min_output, cfg.max_output)) =>
    RLe(RAbs(integral), RMul(R(2), RSub(cfg.max_output, cfg.min_output)))

\* a step whose updated integral was cut back to the limit
C3_Witness ==
  /\ IsStep /\ RLt(cfg.min_output, cfg.max_output) /\ RLt(Zero, call.dt)
  /\ RAbs(integral) = RMul(R(2), RSub(cfg.max_output, cfg.min_output))
  /\ RLt(RAbs(integral), RAbs(call.integral_before))

RateLimitedCall ==
  /\ IsStep /\ call.rate_limiter_enabled /\ call.last_output # None
  /\ RLt(Zero, call.rate_limit)

\* C4 as stated: with the rate limiter on, rate_limit = R > 0 and a
\* last_output supplied, the output is within R*dt of last_output on every
\* step call, the first one (dt = 0) included.
C4_RateLimitEveryCall ==
  RateLimitedCall =>
    RLe(RAbs(RSub(call.output, call.last_output)), RMul(call.rate_limit, call.dt))

\* C4 amended: with the rate limiter on, rate_limit = R > 0, a last_output
\* supplied and dt > 0 (a previous timestamp is recorded), the output is
\* within R*dt of last_output.
C4_RateLimitAfterFirstCall ==
  (RateLimitedCall /\ RLt(Zero, call.dt)) =>
    RLe(RAbs(RSub(call.output, call.last_output)), RMul(call.rate_limit, call.dt))

\* a step the limiter held back by exactly R*dt, below last_output
C4_Witness ==
  /\ RateLimitedCall /\ RLt(Zero, call.dt) /\ call.rate_limited
  /\ RSub(call.last_output, call.output) = RMul(call.rate_limit, call.dt)

\* two step calls in a row, nothing in between, with the same error
RepeatedStep == IsStep /\ call.before.name = "step" /\ call.error = call.before.error

\* C5: when two consecutive step calls with the same error are both
\* saturated, the second leaves the integral as the first left it.
C5_SaturatedIntegralHeld ==
  (RepeatedStep /\ call.output_saturated /\ call.before.output_saturated) =>
    call.integral_after = call.integral_before

\* C6: of two consecutive step calls with the same positive error, ki > 0
\* and neither saturated nor rate-limited, the second reports a strictly
\* greater i_term than the first.
C6_ITermIncreases ==
  ( /\ RepeatedStep /\ RLt(Zero, call.error) /\ RLt(Zero, cfg.ki)
    /\ ~call.output_saturated /\ ~call.rate_limited
    /\ ~call.before.output_saturated /\ ~call.before.rate_limited ) =>
    RLt(call.before.i_term, call.i_term)

\* C7: update_config and apply_options replace the config and kaw only;
\* reset zeroes the integral and the counters, clears the previous-sample
\* fields and keeps the config.
C7_ConfigAndResetFrames ==
  [][ /\ (call'.name \in {"update_config", "apply_options"} =>
            /\ kaw' = _compute_kaw(cfg'.kp)
            /\ UNCHANGED <<integral, prev_pv, prev_t, prev_error, prev_integral,
                           oscillation_count, saturation_count>>)
      /\ (call'.name = "reset" =>
            /\ integral' = Zero
            /\ prev_pv' = None /\ prev_t' = None
            /\ prev_error' = None /\ prev_integral' = None
            /\ oscillation_count' = 0 /\ saturation_count' = 0
            /\ UNCHANGED <<cfg, kaw>>) ]_vars

\* a retuning that found, and kept, accumulated state
C7_Witness ==
  /\ call.name \in {"update_config", "apply_options"}
  /\ integral # Zero /\ prev_pv # None /\ prev_t # None /\ prev_error # None
  /\ prev_integral # None /\ saturation_count > 0

\* C8: bumpless_transfer with ki = 0 leaves the integral at 0; with ki # 0
\* the step call that follows it with the same error and pv and the rate
\* limiter off returns current_output (taken within the output limits).
C8_BumplessReproducesOutput ==
  /\ (call.name = "bumpless_transfer" /\ cfg.ki = Zero) => integral = Zero
  /\ ( /\ IsStep /\ call.before.name = "bumpless_transfer" /\ cfg.ki # Zero
       /\ call.error = call.before.error /\ call.pv = call.before.pv
       /\ ~call.rate_limiter_enabled
       /\ RLe(cfg.min_output, call.before.current_output)
       /\ RLe(call.before.current_output, cfg.max_output) ) =>
       call.output = call.before.current_output

(* ----------------------- properties of the manager --------------------- *)

IsCollect == cm_call.name = "collect_enabled_priorities"

WithinTolerance(x, y) == RLt(RAbs(RSub(x, y)), PriorityTolerance)

\* an enabled consumer with a positive priority
Counts(consumer) == is_enabled(consumer) /\ RLt(Zero, get_priority(consumer))

\* C9: a list computed without the cache has no two values within 0.01 of
\* each other, has a value within 0.01 of the priority of every enabled
\* consumer with priority > 0, and has no value other than the priority of
\* such a consumer.
C9_UncachedPriorities ==
  (IsCollect /\ ~cm_call.use_cache) =>
    LET result == cm_call.result
    IN  /\ \A i, j \in DOMAIN result :
             i # j => ~WithinTolerance(result[i], result[j])
        /\ \A k \in DOMAIN consumers :
             Counts(consumers[k]) =>
               \E i \in DOMAIN result :
                 WithinTolerance(result[i], get_priority(consumers[k]))
        /\ \A i \in DOMAIN result :
             \E k \in DOMAIN consumers :
               Counts(consumers[k]) /\ result[i] = get_priority(consumers[k])

\* two enabled consumers of one tier, merged into a single value
C9_Witness ==
  /\ IsCollect /\ ~cm_call.use_cache
  /\ Len(consumers) = 2 /\ Counts(consumers[1]) /\ Counts(consumers[2])
  /\ get_priority(consumers[1]) # get_priority(consumers[2])
  /\ Len(cm_call.result) = 1

\* C10: a call with use_cache=true returns the cached list while a list is
\* cached and the stored signature equals that of the supplied list;
\* otherwise (signature differs, or the cache was invalidated) it recomputes
\* from the supplied list and stores the result and its signature.
C10_CacheFollowsSignature ==
  [][ (cm_call'.name = "collect_enabled_priorities" /\ cm_call'.use_cache) =>
        IF /\ _cached_enabled_priorities # None
           /\ _cached_consumers_hash = Some(get_consumers_hash(consumers))
        THEN /\ Some(cm_call'.result) = _cached_enabled_priorities
             /\ UNCHANGED <<_cached_enabled_priorities, _cached_consumers_hash>>
        ELSE /\ cm_call'.result = CollectLoop(consumers, Len(consumers))
             /\ _cached_enabled_priorities' = Some(cm_call'.result)
             /\ _cached_consumers_hash' = Some(get_consumers_hash(consumers)) ]_vars

\* a cached call that found a list cached under another signature and
\* replaced it with a different one
C10_Witness ==
  /\ IsCollect /\ cm_call.use_cache /\ ~cm_call.hit
  /\ cm_call.cached_before # None
  /\ cm_call.cached_before # Some(cm_call.result)
  /\ _cached_enabled_priorities = Some(cm_call.result)

\* C11: after a call with use_cache=false the cached priorities are the list
\* the call computed and the cached signature is that of the list supplied.
C11_UncachedCallRefreshesCache ==
  (IsCollect /\ ~cm_call.use_cache) =>
    /\ _cached_enabled_priorities = Some(cm_call.result)
    /\ _cached_consumers_hash = Some(get_consumers_hash(consumers))

\* C11 as the code has it: a call with use_cache=false recomputes the list
\* from the consumers supplied and returns it, and leaves the cached
\* priorities and the cached signature as they were.
C11_UncachedCallLeavesCache ==
  [][ (cm_call'.name = "collect_enabled_priorities" /\ ~cm_call'.use_cache) =>
        /\ cm_call'.result = CollectLoop(consumers, Len(consumers))
        /\ UNCHANGED <<_cached_enabled_priorities, _cached_consumers_hash>> ]_vars

\* an uncached call that computed a list other than the one still cached
C11_Witness ==
  /\ IsCollect /\ ~cm_call.use_cache
  /\ cm_call.cached_before # None
  /\ _cached_enabled_priorities = cm_call.cached_before
  /\ _cached_enabled_priorities # Some(cm_call.result)
  /\ _cached_consumers_hash # Some(get_consumers_hash(consumers))

(* --------------------- reading consumer parameters --------------------- *)

\* one of the parameter getters is called for a consumer
GetConsumerParameter ==
  \E consumer \in DeviceRecords, parameter \in Parameters :
    /\ cm_call' = [NoCmCall EXCEPT !.name = "get_consumer_parameter",
                                   !.arg = <<consumer, parameter>>,
                                   !.value = GetParameter(consumer, parameter)]
    /\ UNCHANGED <<consumers, runtime_enabled, cacheVars, hassVars, pidVars>>

\* an override number entity is registered for a consumer parameter, or the
\* registered one is removed
RegisterOverride ==
  \E entry \in {None} \cup ({"a", "b", NoId} \X Parameters) :
    /\ registry' = entry
    /\ cm_call' = [NoCmCall EXCEPT !.name = "register_override"]
    /\ UNCHANGED <<consumers, runtime_enabled, cacheVars, states,
                   runtime_cmd_w, runtime_is_on, pidVars>>

\* the override entity reports a new state, or leaves the state machine
SetOverrideState ==
  \E state \in EntityStates(OverrideEntity) :
    /\ states' = [states EXCEPT ![OverrideEntity] = state]
    /\ cm_call' = [NoCmCall EXCEPT !.name = "set_state"]
    /\ UNCHANGED <<consumers, runtime_enabled, cacheVars, registry,
                   runtime_cmd_w, runtime_is_on, pidVars>>

NextParam == GetConsumerParameter \/ RegisterOverride \/ SetOverrideState

SpecParam == InitManager /\ [][NextParam]_vars

(* ------------------- start and stop confirmation ----------------------- *)

IsConsumerFinishedStarting ==
  \E consumer \in DeviceRecords :
    /\ cm_call' = [NoCmCall EXCEPT !.name = "is_consumer_finished_starting",
                                   !.arg = consumer,
                                   !.value = is_consumer_finished_starting(consumer)]
    /\ UNCHANGED <<consumers, runtime_enabled, cacheVars, hassVars, pidVars>>

IsConsumerFinishedStopping ==
  \E consumer \in DeviceRecords :
    /\ cm_call' = [NoCmCall EXCEPT !.name = "is_consumer_finished_stopping",
                                   !.arg = consumer,
                                   !.value = is_consumer_finished_stopping(consumer)]
    /\ UNCHANGED <<consumers, runtime_enabled, cacheVars, hassVars, pidVars>>

\* the allocation loop records the command it issued to a consumer
Command ==
  \E id \in CommandedIds, cmd_w \in CommandedPowers, is_on \in BOOLEAN :
    /\ runtime_cmd_w' = [runtime_cmd_w EXCEPT ![id] = cmd_w]
    /\ runtime_is_on' = [runtime_is_on EXCEPT ![id] = is_on]
    /\ cm_call' = [NoCmCall EXCEPT !.name = "command"]
    /\ UNCHANGED <<consumers, runtime_enabled, cacheVars, states, registry, pidVars>>

NextFeedback ==
  \/ IsConsumerFinishedStarting \/ IsConsumerFinishedStopping
  \/ SetState \/ Command

SpecFeedback == InitManager /\ [][NextFeedback]_vars

(* ------------------- queries during a control cycle -------------------- *)

\* a query is made for a consumer, well formed or not; its outcome is an
\* exception or a value
Query ==
  \E consumer \in DeviceRecords \cup MalformedRecords, query \in Queries :
    /\ cm_call' = [NoCmCall EXCEPT
         !.name = "query",
         !.arg = <<consumer, query>>,
         !.value = IF Raises(query, consumer)
                   THEN [raised |-> TRUE, result |-> None]
                   ELSE [raised |-> FALSE, result |-> QueryValue(query, consumer)]]
    /\ UNCHANGED <<consumers, runtime_enabled, cacheVars, hassVars, pidVars>>

\* the runtime record of consumer a is written, cmd_w possibly with null
WriteRuntime ==
  \E cmd_w \in CommandedPowers \cup {Null}, is_on \in BOOLEAN :
    /\ runtime_cmd_w' = [runtime_cmd_w EXCEPT !["a"] = cmd_w]
    /\ runtime_is_on' = [runtime_is_on EXCEPT !["a"] = is_on]
    /\ cm_call' = [NoCmCall EXCEPT !.name = "write_runtime"]
    /\ UNCHANGED <<consumers, runtime_enabled, cacheVars, states, registry, pidVars>>

NextQuery == Query \/ SetState \/ WriteRuntime

SpecQuery == InitManager /\ [][NextQuery]_vars

(* ----------------------- properties of validation ---------------------- *)

IsValidate == cm_call.name = "validate_consumers"

HasError(kind, idx) ==
  \E k \in DOMAIN cm_call.value.errors : cm_call.value.errors[k] = Error(kind, idx)

\* the consumer at idx repeats the id of an earlier consumer of the list
DuplicateId(list, idx) ==
  HasId(list[idx]) /\ \E j \in 1..(idx - 1) : list[j].id = list[idx].id

\* every consumer has a non-empty id, no id occurs twice, every priority is
\* > 0 and every type is controlled or binary
WellFormed(list) ==
  \A idx \in DOMAIN list :
    /\ HasId(list[idx])
    /\ ~DuplicateId(list, idx)
    /\ RLt(Zero, get_priority(list[idx]))
    /\ list[idx].type \in {CONSUMER_TYPE_CONTROLLED, CONSUMER_TYPE_BINARY}

\* is_valid is true exactly when errors is empty, exactly when the list is
\* well formed
ValidExactlyWhenWellFormed ==
  /\ cm_call.value.is_valid <=> (cm_call.value.errors = <<>>)
  /\ cm_call.value.is_valid <=> WellFormed(cm_call.arg)

IsAccess == cm_call.name = "validate_entity_accessibility"

\* the entity is missing from the state machine, or unavailable or unknown
Inaccessible(entity) == states[entity] = NoState \/ Unavailable(states[entity])

HasWarning(kinds, idx) ==
  \E k \in DOMAIN cm_call.value.warnings :
    /\ cm_call.value.warnings[k].idx = idx
    /\ cm_call.value.warnings[k].kind \in kinds

\* C13: validate_entity_accessibility returns a warning for every entity a
\* consumer with an id refers to, power target entity and state entity
\* alike, that is missing from the state machine or unavailable or unknown;
\* all_accessible is true exactly when there is no warning.
C13_EveryInaccessibleEntityWarned ==
  IsAccess =>
    /\ cm_call.value.all_accessible <=> (cm_call.value.warnings = <<>>)
    /\ \A idx \in DOMAIN cm_call.arg :
         LET consumer == cm_call.arg[idx]
             power_target == consumer.power_target_entity_id
             state_entity == consumer.state_entity_id
         IN  HasId(consumer) =>
               /\ (Truthy(power_target) /\ Inaccessible(power_target)) =>
                    HasWarning({"power_target_not_found",
                                "power_target_unavailable"}, idx)
               /\ (Truthy(state_entity) /\ Inaccessible(state_entity)) =>
                    HasWarning({"state_entity_not_found",
                                "state_entity_unavailable"}, idx)

(* ------------------ properties of the parameter getters ---------------- *)

IsGetParameter == cm_call.name = "get_consumer_parameter"

\* an override entity is registered for the consumer's parameter and its
\* state is available and numeric
OverrideWins(consumer, parameter) ==
  /\ registry = <<consumer.id, parameter>>
  /\ states[OverrideEntity] # NoState
  /\ ~Unavailable(states[OverrideEntity])
  /\ ParseFloat(states[OverrideEntity]) # None

\* C14: each of the five getters returns the override entity's value when
\* an override entity exists and its state is available and numeric;
\* otherwise the consumer's own configured value of the parameter; and only
\* if that is absent the hard-coded default.
C14_OverrideThenConfiguredThenDefault ==
  IsGetParameter =>
    LET consumer == cm_call.arg[1]
        parameter == cm_call.arg[2]
    IN  cm_call.value =
          IF OverrideWins(consumer, parameter)
          THEN ParseFloat(states[OverrideEntity])
          ELSE IF consumer[parameter] # None THEN consumer[parameter]
          ELSE HardCodedDefault(parameter)

\* C14 as the code has it: the override wins when registered, available
\* and numeric; otherwise step_w, pid_deadband_pct and threshold_w fall back
\* to the consumer's configured value and, if that is absent, to the
\* hard-coded default, while the start and the stop delay fall back to the
\* hard-coded default whatever the consumer has configured.
C14_DelaysSkipConfiguredValue ==
  IsGetParameter =>
    LET consumer == cm_call.arg[1]
        parameter == cm_call.arg[2]
        is_delay == parameter \in {"start_delay_s", "stop_delay_s"}
    IN  cm_call.value =
          IF OverrideWins(consumer, parameter)
          THEN ParseFloat(states[OverrideEntity])
          ELSE IF ~is_delay /\ consumer[parameter] # None THEN consumer[parameter]
          ELSE HardCodedDefault(parameter)

\* a start delay read for a consumer that has one configured, with an
\* override entity registered but not numeric
C14_Witness ==
  /\ IsGetParameter
  /\ cm_call.arg[2] = "start_delay_s"
  /\ cm_call.arg[1].start_delay_s # None
  /\ registry = <<cm_call.arg[1].id, "start_delay_s">>
  /\ states[OverrideEntity] = "junk"
  /\ cm_call.value = CONSUMER_DEFAULT_START_DELAY_S

(* ------------- properties of start and stop confirmation --------------- *)

IsFinishedStarting == cm_call.name = "is_consumer_finished_starting"
IsFinishedStopping == cm_call.name = "is_consumer_finished_stopping"

Controlled(consumer) == consumer.type = CONSUMER_TYPE_CONTROLLED
Binary(consumer) == consumer.type = CONSUMER_TYPE_BINARY

\* the last commanded values of a consumer; one without an id has no
\* runtime record, which reads as nothing commanded
CommandedPower(consumer) ==
  IF consumer.id = NoId THEN Zero ELSE get_consumer_runtime_cmd_w(consumer.id)
CommandedOn(consumer) ==
  IF consumer.id = NoId THEN FALSE ELSE get_consumer_runtime_is_on(consumer.id)

\* what is_consumer_finished_starting is to return when the physical state
\* is unknown, for a consumer that has a runtime record
StartedByCommand(consumer) ==
  IF Controlled(consumer)
  THEN is_at_max(CommandedPower(consumer), MaxPower(consumer))
  ELSE CommandedOn(consumer)

C16_StoppedByStateOrCommand ==
  IsFinishedStopping =>
    LET consumer == cm_call.arg
        device_on == read_physical_device_state(consumer)
    IN  /\ device_on = DeviceOff => cm_call.value
        /\ device_on = DeviceOn => ~cm_call.value
        /\ (device_on = DeviceUnknown /\ Controlled(consumer)) =>
             (cm_call.value <=> RLe(CommandedPower(consumer), Zero))
        /\ (device_on = DeviceUnknown /\ Binary(consumer)) =>
             (cm_call.value <=> ~CommandedOn(consumer))

\* a controlled consumer of unknown physical state with a positive power
\* commanded, reported as not stopped
C16_Witness ==
  /\ IsFinishedStopping /\ ~cm_call.value
  /\ Controlled(cm_call.arg)
  /\ read_physical_device_state(cm_call.arg) = DeviceUnknown
  /\ RLt(Zero, CommandedPower(cm_call.arg))

(* ---------------------- properties of the lookup ----------------------- *)

IsLookup == cm_call.name = "get_consumer_by_id"

\* C17: a get_consumer_by_id call returns either nothing or an element of
\* the list supplied to it whose id is the requested id, and returns
\* nothing exactly when no element of that list has the requested id; so a
\* consumer cached from an earlier list that the supplied list no longer
\* holds is never returned.
C17_LookupReturnsListedConsumer ==
  IsLookup =>
    /\ cm_call.value.found =>
         /\ \E i \in DOMAIN consumers : consumers[i] = cm_call.value.consumer
         /\ cm_call.value.consumer.id = cm_call.arg
    /\ ~cm_call.value.found <=> (Matching(consumers, cm_call.arg) = {})

\* a lookup that found a consumer cached under the id, no longer in the
\* list, and returned the list's consumer of that id instead
C17_Witness ==
  /\ IsLookup /\ cm_call.value.found
  /\ cm_call.arg \in DOMAIN cm_call.cached_before[1]
  /\ ~StillListed(cm_call.cached_before[1][cm_call.arg], consumers)
  /\ cm_call.value.consumer # cm_call.cached_before[1][cm_call.arg]
  /\ _cached_consumer_lookups[cm_call.arg] = cm_call.value.consumer

(* ------------------- properties of the integral update ----------------- *)

C19_SelfHealingZeroesIntegral ==
  (IsStep /\ RLt(Zero, call.dt)) =>
    /\ call.healed =>
         (integral = Zero /\ saturation_count = 0 /\ oscillation_count = 0)
    /\ (~call.output_saturated /\ ~call.rate_limited) => saturation_count = 0

\* C20: the third update in a row that flips the sign of the integral
\* leaves the integral and the flip count at zero; an update that does not
\* flip the sign leaves the flip count at zero; the flip count is 0, 1 or 2
\* between step calls.
C20_ThirdFlipZeroesIntegral ==
  /\ oscillation_count \in {0, 1, 2}
  /\ (IsStep /\ RLt(Zero, call.dt)) =>
       /\ call.flips = 3 => (integral = Zero /\ oscillation_count = 0)
       /\ call.flips = 0 => oscillation_count = 0

\* C20 as the code has it: the same under a configuration with
\* min_output # max_output, the sign being compared with the integral the
\* previous update recorded; with min_output = max_output sign flips are
\* neither counted nor acted on.
C20_ThirdFlipZeroesIntegralInRange ==
  /\ oscillation_count \in {0, 1, 2}
  /\ (IsStep /\ RLt(Zero, call.dt) /\ cfg.min_output # cfg.max_output) =>
       /\ call.flips = 3 => (integral = Zero /\ oscillation_count = 0)
       /\ call.flips = 0 => oscillation_count = 0
       /\ call.flips \in {1, 2} => oscillation_count = call.flips
  /\ (IsStep /\ cfg.min_output = cfg.max_output) => oscillation_count = 0

\* a third flip in a row under min_output < max_output, made by an update
\* that would have left the integral away from zero
C20_Witness ==
  /\ IsStep /\ RLt(Zero, call.dt) /\ RLt(cfg.min_output, cfg.max_output)
  /\ call.flips = 3
  /\ call.integral_before # Zero
  /\ integral = Zero /\ prev_integral = None /\ oscillation_count = 0

(* ------------------------ properties of the queries -------------------- *)

IsQuery == cm_call.name = "query"

\* C21: no query of the manager raises, whatever the state machine holds
\* and whatever consumer or runtime field is missing, null or non-numeric:
\* each one returns.
C21_QueriesNeverRaise == IsQuery => ~cm_call.value.raised

(* ------------------------- coherence of the cache ---------------------- *)

\* C22: whatever calls, runtime changes, list changes and invalidations came
\* before, a call with use_cache=true returns the list that a call with
\* use_cache=false returns for the same consumer list and runtime state.
C22_CachedCallEqualsUncached ==
  (IsCollect /\ cm_call.use_cache) =>
    cm_call.result = CollectLoop(consumers, Len(consumers))

(* ---------------------- the two gates of a consumer -------------------- *)

\* C23: for a consumer with an id, whatever its type and max_power_w and
\* whatever the state machine and the runtime record hold,
\* is_consumer_finished_starting and is_consumer_finished_stopping are not
\* both true in the same state.
C23_StartedAndStoppedExclusive ==
  ((IsFinishedStarting \/ IsFinishedStopping) /\ cm_call.arg.id # NoId) =>
    ~(/\ is_consumer_finished_starting(cm_call.arg)
      /\ is_consumer_finished_stopping(cm_call.arg))

====
